---- MODULE Spec2Model ----
(***************************************************************************)
(* A model of the robocup-prototype control stack:                         *)
(*   - GameState            (src/gamestate/gamestate.py)                   *)
(*   - Coordinator          (src/coordinator.py)                           *)
(*   - Strategy.control_loop(src/strategy/strategy.py)                     *)
(*   - JohnRobot            (src/move/comms/johnrobot.py)                  *)
(*                                                                         *)
(* Time.  time.time() is modelled by the variable now, counted in units of *)
(* 0.05 s, the smallest time constant of the program (MIN_TIME_INTERVAL).  *)
(* The program's time constants are therefore 1 (.05 s), 2 (.1 s) and      *)
(* 4 (.2 s).  Every read of the clock in the code reads now.               *)
(*                                                                         *)
(* Velocities are exact rationals: a velocity (dx/dt, dy/dt) is the record *)
(* [dx, dy, dt] reduced to lowest terms, in position units per time unit.  *)
(***************************************************************************)
EXTENDS Integers, Sequences, FiniteSets, TLC

(***************************************************************************)
(* Bounds of the model.                                                    *)
(***************************************************************************)
\* the clock runs from 0 to MaxTime
MaxTime == 5
\* position updates (ball and robots together) in one behaviour of SpecStore
MaxUpdates == 3
\* update_ball_position calls in one behaviour of SpecVelocity
MaxBallUpdates == 4
\* update_robot_position calls on the one robot id of SpecHistory
MaxHistUpdates == 21
\* times the position given to update_robot_position differs from the one
\* given before it, in one behaviour of SpecHistory
MaxMoves == 3

\* iterations of Coordinator.game_loop
MaxTicks == 4
\* items a channel holds before put_nowait raises queue.Full
QueueCap == 2
\* frames the vision worker, and events the referee worker, put in all
MaxFrames == 4

\* iterations of Strategy.control_loop
MaxCtrlTicks == 2
\* update_robot_position calls in one behaviour of SpecControl
MaxCtrlUpdates == 1

\* the clock of SpecRadio runs from 0 to MaxRadioTime
MaxRadioTime == 11
\* JohnRobot method calls in one behaviour of SpecRadio
MaxRadioCalls == 4

\* update_robot_position calls started in one behaviour of SpecThreads
MaxThreadCalls == 2

\* iterations of Strategy.control_loop in one behaviour of SpecVideo
MaxVideoTicks == 11
\* update_ball_position calls in one behaviour of SpecVideo
MaxVideoBallUpdates == 3

(***************************************************************************)
(* Program constants (times in units of 0.05 s).                           *)
(***************************************************************************)
BALL_POS_HISTORY_LENGTH == 20
BALL_LOST_TIME == 2
ROBOT_POS_HISTORY_LENGTH == 20
ROBOT_LOST_TIME == 4
MIN_TIME_INTERVAL == 1
\* johnrobot.py: the command codes, and command_delay = 0.15 s
CMD_MOVE == 0
CMD_DRIBBLE == 1
CMD_KILL == 2
last_command_delay == 3

\* the robot ids the program names (entry_video's robot_id_0, robot_id_1)
RobotIds == {0, 8}
\* ball positions (x, y) and robot positions (x, y, w) offered by vision
BallPositions == {<<0, 0>>, <<50, 0>>}
RobotPositions == {<<0, 0, 0>>, <<100, 0, 0>>}
\* the modes start_controlling is given: one the control loop recognises
\* and one it does not
Modes == {"entry_video", "no_such_mode"}
\* the modes control_loop dispatches on
RecognisedModes == {"UI", "goalie_test", "attacker_test", "defender_test",
                    "entry_video", "full_game"}
\* the two teams, in the order the Coordinator serves them
Teams == {"blue", "yellow"}
\* the threads that call update_robot_position
Writers == {"writer_a", "writer_b"}

VARIABLES
    now,               \* time.time()
    _ball_position,    \* deque of (time, pos), newest first
    _robot_positions,  \* dict robot id -> deque of (time, pos), newest first
    ball_velocity,     \* the cached velocity
    velCall,           \* outcome of the last get_ball_velocity call
    storeOp,           \* the GameState method that ran last, and the robot
                       \* ids it was given
    ballUpdates,       \* history: number of update_ball_position calls
    ballLastT,         \* history: clock value at the last of them
    robotLog,          \* history: robot id -> every (time, pos) given to
                       \* update_robot_position, in call order
    firstVel           \* history: the first get_ball_velocity call made
                       \* since the last update_ball_position, and the clock
                       \* value at that call

VARIABLES
    is_playing,        \* Coordinator.is_playing
    coordPc,           \* where game_loop stands
    ticks,             \* iterations of game_loop started
    vision_q,          \* vision_provider.commands_out_q
    refbox_q,          \* refbox_provider.commands_out_q
    radio_q,           \* radio_provider.data_in_q
    vision_data,       \* Coordinator.vision_data
    refbox_data,       \* Coordinator.refbox_data
    gamestate_queue,   \* team -> blue_/yellow_gamestate_queue
    commands_queue,    \* team -> blue_/yellow_commands_queue
    robot_commands,    \* team -> _blue_/_yellow_robot_commands
    framesPut,         \* frames put by the vision worker so far
    eventsPut,         \* events put by the referee worker so far
    pubLog,            \* history: team -> outcome of each publish so far
    lastTake           \* history: team -> outcome of the last get_nowait

coordVars == <<is_playing, coordPc, ticks, vision_q, refbox_q, radio_q,
               vision_data, refbox_data, gamestate_queue, commands_queue,
               robot_commands, framesPut, eventsPut, pubLog, lastTake>>

VARIABLES
    _is_controlling,   \* Strategy._is_controlling
    _mode,             \* Strategy._mode
    ctrlPc,            \* where control_loop stands
    ctrlTicks,         \* iterations of control_loop started
    game_begun,        \* what wait_until_game_begins waits for
    team_commands,     \* robot id -> its commands: waypoints and speeds
    todo,              \* the (robot_id, robot_commands) items still to visit
    ctrlRaised,        \* history: an exception was caught and logged
    lostAtVisit,       \* history: robot id -> whether this iteration's
                       \* reconciliation found it lost
    tickLog            \* history: what this iteration has done so far, in
                       \* order: the return of the behaviour function with
                       \* the waypoints it left, and each robot visited
                       \* with the staleness and position it had then

VARIABLES
    video_phase,       \* Strategy.video_phase; None until it is assigned
    videoTick          \* history: the last entry_video call: the phase it
                       \* found, what its helpers returned, whether the
                       \* ball was past the threshold, and what it did

videoVars == <<video_phase, videoTick>>

VARIABLES
    _control_thread,   \* Strategy._control_thread
    stopCall           \* history: what the last stop_controlling call did

stopVars == <<_control_thread, stopCall>>

ctrlVars == <<_is_controlling, _mode, ctrlPc, ctrlTicks, game_begun,
              team_commands, todo, ctrlRaised, lostAtVisit, tickLog,
              videoVars, stopVars>>

storeVars == <<now, _ball_position, _robot_positions, ball_velocity, velCall,
               storeOp, ballUpdates, ballLastT, robotLog, firstVel>>

VARIABLES
    robot_waypoints,   \* GameState.robot_waypoints: robot id -> waypoints
    robot_dribblers,   \* GameState.robot_dribblers: robot id -> dribbler on
    robot_chargings,   \* GameState.robot_chargings: robot id -> charging
    robot_kicks        \* GameState.robot_kicks: robot id -> kick requested

commandVars == <<robot_waypoints, robot_dribblers, robot_chargings,
                 robot_kicks>>

VARIABLES
    last_command_time, \* JohnRobot.last_command_time
    sent,              \* history: what comms.send was given, in order, each
                       \* with the clock value and the call that sent it
    radioOp,           \* history: the JohnRobot method that ran last, the
                       \* clock value then, and whether it called comms.send
    radioCalls         \* history: number of JohnRobot method calls so far

radioVars == <<last_command_time, sent, radioOp, radioCalls>>

VARIABLES
    teamLog            \* history: (team, robot id) -> every (time, pos)
                       \* vision reported for that team's robot, in order

visionVars == <<teamLog>>

VARIABLES
    threadPc,          \* thread -> where it stands in update_robot_position
    threadArgs,        \* thread -> the (robot_id, pos) it was called with
    readCall           \* the last getter call of the reader thread: the
                       \* getter, its robot id, and what the call did

threadVars == <<threadPc, threadArgs, readCall>>

VARIABLES
    given,             \* the optional collaborators Coordinator.__init__
                       \* was given (not None)
    processes,         \* Coordinator.processes: for each Process object
                       \* its target and whether start() was called on it
    gamePc             \* where Coordinator.__init__ / start_game stands

gameVars == <<given, processes, gamePc>>

vars == <<storeVars, coordVars, ctrlVars, commandVars, radioVars, visionVars,
          threadVars, gameVars>>

\* what the actions of one component leave alone
otherThanStore == <<coordVars, ctrlVars, commandVars, radioVars, visionVars,
                    threadVars,
        gameVars>>
otherThanCoord == <<storeVars, ctrlVars, commandVars, radioVars, visionVars,
                    threadVars,
        gameVars>>
otherThanCtrl == <<storeVars, coordVars, commandVars, radioVars, visionVars,
                   threadVars,
        gameVars>>
otherThanRadio == <<storeVars, coordVars, ctrlVars, commandVars, visionVars,
                    threadVars,
        gameVars>>
otherThanStoreAndVision == <<coordVars, ctrlVars, commandVars, radioVars,
                             threadVars,
        gameVars>>
otherThanGame == <<storeVars, coordVars, ctrlVars, commandVars, radioVars,
                   visionVars, threadVars>>
otherThanStoreAndThreads == <<coordVars, ctrlVars, commandVars, radioVars,
                              visionVars,
        gameVars>>

(***************************************************************************)
(* Helpers.                                                                *)
(***************************************************************************)
Abs(n) == IF n < 0 THEN -n ELSE n

RECURSIVE GCD(_, _)
GCD(a, b) == IF b = 0 THEN a ELSE GCD(b, a % b)

\* the rational vector (dx/dt, dy/dt), dt > 0, in lowest terms
Vel(dx, dy, dt) ==
    LET g == GCD(GCD(Abs(dx), Abs(dy)), dt)
    IN  [dx |-> dx \div g, dy |-> dy \div g, dt |-> dt \div g]

\* the tuple (0, 0)
ZeroVel == [dx |-> 0, dy |-> 0, dt |-> 1]

\* a deque built without maxlen: nothing is ever discarded
AppendLeftUnbounded(dq, item, maxlen) == <<item>> \o dq

\* collections.deque(maxlen).appendleft: the new item goes to the front and
\* a full deque discards the item at its right end
AppendLeft(dq, item, maxlen) ==
    LET s == <<item>> \o dq
    IN  IF Len(s) > maxlen THEN SubSeq(s, 1, maxlen) ELSE s

(***************************************************************************)
(* GameState: raw data getters.                                            *)
(***************************************************************************)
\* A getter's result is None or a value: None is the empty tuple and the
\* value x is Some(x), the 1-tuple holding it; Val reads it back
None == <<>>
Some(x) == <<x>>
Val(result) == result[1]

get_ball_position ==
    IF Len(_ball_position) = 0 THEN None ELSE Some(_ball_position[1][2])

get_ball_last_update_time ==
    IF Len(_ball_position) = 0 THEN None ELSE Some(_ball_position[1][1])

is_ball_lost ==
    LET last_update_time == get_ball_last_update_time
    IN  IF last_update_time = None THEN TRUE
        ELSE now - Val(last_update_time) > BALL_LOST_TIME

get_blue_team_robot_ids == DOMAIN _robot_positions

get_robot_position(robot_id) ==
    IF robot_id \notin DOMAIN _robot_positions THEN None
    ELSE Some(_robot_positions[robot_id][1][2])

get_robot_last_update_time(robot_id) ==
    IF robot_id \notin DOMAIN _robot_positions THEN None
    ELSE Some(_robot_positions[robot_id][1][1])

\* is_robot_lost with >= for >
is_robot_lost_at_threshold(robot_id) ==
    LET last_update_time == get_robot_last_update_time(robot_id)
    IN  IF last_update_time = None THEN TRUE
        ELSE now - Val(last_update_time) >= ROBOT_LOST_TIME

is_robot_lost(robot_id) ==
    LET last_update_time == get_robot_last_update_time(robot_id)
    IN  IF last_update_time = None THEN TRUE
        ELSE now - Val(last_update_time) > ROBOT_LOST_TIME

(***************************************************************************)
(* GameState: analysis functions.                                          *)
(***************************************************************************)
diff_pos(p1, p2) == <<p1[1] - p2[1], p1[2] - p2[2]>>

\* the while loop of get_ball_velocity; i is the 1-based index into the
\* history (the code's i + 1)
RECURSIVE LookbackIndex(_, _)
LookbackIndex(positions, i) ==
    IF i < Len(positions)
       /\ positions[1][1] - positions[i][1] < MIN_TIME_INTERVAL
    THEN LookbackIndex(positions, i + 1)
    ELSE i

\* get_ball_velocity with a lost ball reported as standing still
BallVelocityCallZeroWhenLost(positions, cached) ==
    IF Len(positions) <= 1 \/ is_ball_lost
    THEN [outcome |-> "returned", value |-> ZeroVel, cache |-> cached,
          prev |-> cached]
    ELSE LET i == LookbackIndex(positions, 1)
             delta_pos == diff_pos(positions[1][2], positions[i][2])
             delta_time == positions[1][1] - positions[i][1]
         IN  IF delta_time = 0
             THEN [outcome |-> "ZeroDivisionError", value |-> ZeroVel,
                   cache |-> cached, prev |-> cached]
             ELSE LET v == Vel(delta_pos[1], delta_pos[2], delta_time)
                  IN  [outcome |-> "returned", value |-> v, cache |-> v,
                       prev |-> cached]

\* get_ball_velocity as a function of the history and the cache: what the
\* call does (returns or raises), the value returned, the cache afterwards
BallVelocityCall(positions, cached) ==
    IF Len(positions) <= 1
    THEN [outcome |-> "returned", value |-> ZeroVel, cache |-> cached,
          prev |-> cached]
    ELSE LET i == LookbackIndex(positions, 1)
             delta_pos == diff_pos(positions[1][2], positions[i][2])
             delta_time == positions[1][1] - positions[i][1]
         IN  IF delta_time = 0
             THEN \* 1 / delta_time raises before ball_velocity is assigned
                  [outcome |-> "ZeroDivisionError", value |-> ZeroVel,
                   cache |-> cached, prev |-> cached]
             ELSE LET v == Vel(delta_pos[1], delta_pos[2], delta_time)
                  IN  [outcome |-> "returned", value |-> v, cache |-> v,
                       prev |-> cached]

NoCall == [outcome |-> "none", value |-> ZeroVel, cache |-> ZeroVel,
           prev |-> ZeroVel]

(***************************************************************************)
(* Initial state: GameState.__init__.                                      *)
(***************************************************************************)
StoreInit ==
    /\ now = 0
    /\ _ball_position = <<>>
    /\ _robot_positions = <<>>
    /\ ball_velocity = ZeroVel
    /\ velCall = NoCall
    /\ storeOp = [op |-> "__init__", robots |-> {}]
    /\ ballUpdates = 0
    /\ ballLastT = 0
    /\ robotLog = [r \in RobotIds |-> <<>>]
    /\ firstVel = [call |-> NoCall, at |-> 0]

\* Coordinator.__init__ and the Provider queues, with game_loop entered
CoordInit ==
    /\ is_playing = TRUE
    /\ coordPc = "loop_head"
    /\ ticks = 0
    /\ vision_q = <<>>
    /\ refbox_q = <<>>
    /\ radio_q = <<>>
    /\ vision_data = None
    /\ refbox_data = None
    /\ gamestate_queue = [t \in Teams |-> <<>>]
    /\ commands_queue = [t \in Teams |-> <<>>]
    /\ robot_commands = [t \in Teams |-> None]
    /\ framesPut = 0
    /\ eventsPut = 0
    /\ pubLog = [t \in Teams |-> <<>>]
    /\ lastTake = [t \in Teams |-> "none"]

\* Strategy.__init__, and the default commands of the team's robots
CtrlInit ==
    /\ _is_controlling = FALSE
    /\ _mode = None
    /\ ctrlPc = "not_started"
    /\ ctrlTicks = 0
    /\ game_begun = FALSE
    /\ team_commands =
           [r \in RobotIds |-> [waypoints |-> <<>>, speeds |-> <<0, 0, 0>>]]
    /\ todo = <<>>
    /\ ctrlRaised = FALSE
    /\ lostAtVisit = [r \in RobotIds |-> "unvisited"]
    /\ tickLog = <<>>
    /\ video_phase = None
    /\ videoTick = [before |-> 0, got_ball |-> FALSE, kicked |-> FALSE,
                    ball_past |-> FALSE, outcome |-> "none"]
    /\ _control_thread = None
    /\ stopCall = "none"

\* the command dicts of GameState.__init__
CommandInit ==
    /\ robot_waypoints = <<>>
    /\ robot_dribblers = <<>>
    /\ robot_chargings = <<>>
    /\ robot_kicks = <<>>

\* JohnRobot.__init__
RadioInit ==
    /\ last_command_time = now
    /\ sent = <<>>
    /\ radioOp = [op |-> "__init__", at |-> now, sent |-> FALSE]
    /\ radioCalls = 0

\* nothing reported by vision yet
VisionInit ==
    teamLog = [k \in Teams \X RobotIds |-> <<>>]

\* no thread inside a GameState method
ThreadInit ==
    /\ threadPc = [w \in Writers |-> "idle"]
    /\ threadArgs = [w \in Writers |-> None]
    /\ readCall = [op |-> "none", robot_id |-> 0, outcome |-> "none",
                   value |-> None]

\* no Coordinator built yet
GameInit ==
    /\ given = {}
    /\ processes = <<>>
    /\ gamePc = "__init__"

Init ==
    /\ StoreInit /\ CoordInit /\ CtrlInit /\ CommandInit /\ RadioInit
    /\ VisionInit /\ ThreadInit /\ GameInit

(***************************************************************************)
(* Actions of the store.                                                   *)
(***************************************************************************)
\* the number of position updates made so far
RECURSIVE SumLen(_, _)
SumLen(f, S) ==
    IF S = {} THEN 0
    ELSE LET x == CHOOSE y \in S : TRUE
         IN  Len(f[x]) + SumLen(f, S \ {x})

UpdatesSoFar == ballUpdates + SumLen(robotLog, RobotIds)

\* the clock advances, up to a bound
TickUpTo(bound) ==
    /\ now < bound
    /\ now' = now + 1
    /\ storeOp' = [op |-> "tick", robots |-> {}]
    /\ UNCHANGED <<_ball_position, _robot_positions, ball_velocity, velCall,
                   ballUpdates, ballLastT, robotLog, firstVel>>

Tick == TickUpTo(MaxTime)

update_ball_position(pos, cap) ==
    /\ UpdatesSoFar < cap
    /\ _ball_position' =
           AppendLeft(_ball_position, <<now, pos>>, BALL_POS_HISTORY_LENGTH)
    /\ storeOp' = [op |-> "update_ball_position", robots |-> {}]
    /\ ballUpdates' = ballUpdates + 1
    /\ ballLastT' = now
    /\ firstVel' = [call |-> NoCall, at |-> 0]
    /\ UNCHANGED <<now, _robot_positions, ball_velocity, velCall, robotLog>>

\* the dict after update_robot_position(robot_id, pos)
RobotPositionsAfterUpdate(robot_id, pos) ==
    LET created ==
            IF robot_id \notin DOMAIN _robot_positions
            THEN [k \in DOMAIN _robot_positions \cup {robot_id} |->
                     IF k = robot_id THEN <<>> ELSE _robot_positions[k]]
            ELSE _robot_positions
    IN  [created EXCEPT ![robot_id] =
            AppendLeft(created[robot_id], <<now, pos>>,
                       ROBOT_POS_HISTORY_LENGTH)]

update_robot_position(robot_id, pos, cap) ==
    /\ UpdatesSoFar < cap
    /\ _robot_positions' = RobotPositionsAfterUpdate(robot_id, pos)
    /\ storeOp' = [op |-> "update_robot_position", robots |-> {robot_id}]
    /\ robotLog' = [robotLog EXCEPT ![robot_id] = Append(@, <<now, pos>>)]
    /\ UNCHANGED <<now, _ball_position, ball_velocity, velCall, ballUpdates,
                   ballLastT, firstVel>>

get_ball_velocity ==
    /\ velCall' = BallVelocityCall(_ball_position, ball_velocity)
    /\ ball_velocity' = velCall'.cache
    /\ storeOp' = [op |-> "get_ball_velocity", robots |-> {}]
    /\ firstVel' = IF firstVel.call.outcome = "none"
                   THEN [call |-> velCall', at |-> now]
                   ELSE firstVel
    /\ UNCHANGED <<now, _ball_position, _robot_positions, ballUpdates,
                   ballLastT, robotLog>>

\* the store under vision updates of the ball and of every robot
StoreNext ==
    \/ Tick /\ UNCHANGED otherThanStore
    \/ (\E pos \in BallPositions : update_ball_position(pos, MaxUpdates))
           /\ UNCHANGED otherThanStore
    \/ (\E r \in RobotIds, pos \in RobotPositions :
           update_robot_position(r, pos, MaxUpdates)) /\ UNCHANGED otherThanStore

SpecStore == Init /\ [][StoreNext]_vars

\* the getters as Strategy calls them (strategy.py:134, 138): the store of
\* gamestate.py has no place for the team, so the robot id alone selects
\* the history
get_team_robot_position(team, robot_id) == get_robot_position(robot_id)
get_team_robot_last_update_time(team, robot_id) ==
    get_robot_last_update_time(robot_id)
is_team_robot_lost(team, robot_id) == is_robot_lost(robot_id)

\* vision reports the robot robot_id of a team at pos
ObserveRobot(team, robot_id, pos) ==
    /\ update_robot_position(robot_id, pos, MaxUpdates)
    /\ teamLog' = [teamLog EXCEPT ![<<team, robot_id>>] =
                       Append(@, <<now, pos>>)]

\* the store under vision updates of the robots of both teams
TeamsNext ==
    \/ Tick /\ UNCHANGED otherThanStore
    \/ (\E team \in Teams, r \in RobotIds, pos \in RobotPositions :
           ObserveRobot(team, r, pos))
           /\ UNCHANGED otherThanStoreAndVision

SpecTeams == Init /\ [][TeamsNext]_vars

(***************************************************************************)
(* GameState used by several threads at once.  A thread switch can fall    *)
(* between any two statements of a method, so update_robot_position is     *)
(* three steps, one per line (102, 103, 104); a getter, which only reads a *)
(* dict that never loses a key, is one step.                               *)
(***************************************************************************)
\* update_robot_position calls started so far
CallsStarted ==
    SumLen(robotLog, RobotIds)
        + Cardinality({w \in Writers : threadPc[w] # "idle"})

\* a thread enters update_robot_position(robot_id, pos)
BeginUpdate(w, robot_id, pos) ==
    /\ threadPc[w] = "idle"
    /\ CallsStarted < MaxThreadCalls
    /\ threadPc' = [threadPc EXCEPT ![w] = "test"]
    /\ threadArgs' = [threadArgs EXCEPT ![w] = Some(<<robot_id, pos>>)]
    /\ UNCHANGED <<storeVars, readCall>>

\* line 102: if robot_id not in self._robot_positions
TestAbsent(w) ==
    /\ threadPc[w] = "test"
    /\ threadPc' = [threadPc EXCEPT ![w] =
                       IF Val(threadArgs[w])[1] \notin DOMAIN _robot_positions
                       THEN "create" ELSE "append"]
    /\ UNCHANGED <<storeVars, threadArgs, readCall>>

\* line 103: self._robot_positions[robot_id] = deque([], 20)
CreateHistory(w) ==
    /\ threadPc[w] = "create"
    /\ LET robot_id == Val(threadArgs[w])[1]
       IN  _robot_positions' =
               [k \in DOMAIN _robot_positions \cup {robot_id} |->
                   IF k = robot_id THEN <<>> ELSE _robot_positions[k]]
    /\ threadPc' = [threadPc EXCEPT ![w] = "append"]
    /\ UNCHANGED <<now, _ball_position, ball_velocity, velCall, storeOp,
                   ballUpdates, ballLastT, robotLog, firstVel, threadArgs,
                   readCall>>

\* line 104: self._robot_positions[robot_id].appendleft((time.time(), pos))
AppendSample(w) ==
    /\ threadPc[w] = "append"
    /\ LET robot_id == Val(threadArgs[w])[1]
           pos == Val(threadArgs[w])[2]
       IN  /\ _robot_positions' =
                  [_robot_positions EXCEPT ![robot_id] =
                      AppendLeft(@, <<now, pos>>, ROBOT_POS_HISTORY_LENGTH)]
           /\ robotLog' =
                  [robotLog EXCEPT ![robot_id] = Append(@, <<now, pos>>)]
           /\ storeOp' = [op |-> "update_robot_position",
                          robots |-> {robot_id}]
    /\ threadPc' = [threadPc EXCEPT ![w] = "idle"]
    /\ threadArgs' = [threadArgs EXCEPT ![w] = None]
    /\ UNCHANGED <<now, _ball_position, ball_velocity, velCall, ballUpdates,
                   ballLastT, firstVel, readCall>>

\* the getters of robot data
RobotGetters == {"get_robot_position", "get_robot_last_update_time",
                 "is_robot_lost"}

\* what a getter call does: self._robot_positions[robot_id][0] raises
\* IndexError on an empty deque
GetterCall(op, robot_id) ==
    IF robot_id \in DOMAIN _robot_positions
       /\ Len(_robot_positions[robot_id]) = 0
    THEN [op |-> op, robot_id |-> robot_id, outcome |-> "IndexError",
          value |-> None]
    ELSE [op |-> op, robot_id |-> robot_id, outcome |-> "returned",
          value |-> IF op = "get_robot_position"
                    THEN get_robot_position(robot_id)
                    ELSE IF op = "get_robot_last_update_time"
                    THEN get_robot_last_update_time(robot_id)
                    ELSE Some(is_robot_lost(robot_id))]

\* the reader thread calls a getter
ReadRobot(op, robot_id) ==
    /\ readCall' = GetterCall(op, robot_id)
    /\ UNCHANGED <<storeVars, threadPc, threadArgs>>

ThreadsNext ==
    \/ Tick /\ UNCHANGED otherThanStore
    \/ (\E w \in Writers, r \in RobotIds, pos \in RobotPositions :
           BeginUpdate(w, r, pos)) /\ UNCHANGED otherThanStoreAndThreads
    \/ (\E w \in Writers : TestAbsent(w))
           /\ UNCHANGED otherThanStoreAndThreads
    \/ (\E w \in Writers : CreateHistory(w))
           /\ UNCHANGED otherThanStoreAndThreads
    \/ (\E w \in Writers : AppendSample(w))
           /\ UNCHANGED otherThanStoreAndThreads
    \/ (\E op \in RobotGetters, r \in RobotIds : ReadRobot(op, r))
           /\ UNCHANGED otherThanStoreAndThreads

SpecThreads == Init /\ [][ThreadsNext]_vars

\* the ball history and its velocity estimate
VelocityNext ==
    \/ Tick /\ UNCHANGED otherThanStore
    \/ (\E pos \in BallPositions : update_ball_position(pos, MaxBallUpdates))
           /\ UNCHANGED otherThanStore
    \/ get_ball_velocity /\ UNCHANGED otherThanStore

SpecVelocity == Init /\ [][VelocityNext]_vars

\* the number of places where a log's position differs from the one before
RECURSIVE Moves(_)
Moves(log) ==
    IF Len(log) <= 1 THEN 0
    ELSE (IF log[1][2] # log[2][2] THEN 1 ELSE 0) + Moves(Tail(log))

\* one robot's history filled past its capacity
HistoryNext ==
    \E pos \in RobotPositions :
        /\ Moves(Append(robotLog[0], <<now, pos>>)) <= MaxMoves
        /\ update_robot_position(0, pos, MaxHistUpdates)
        /\ UNCHANGED otherThanStore

SpecHistory == Init /\ [][HistoryNext]_vars

(***************************************************************************)
(* Coordinator.                                                            *)
(***************************************************************************)
\* the snapshot game_loop publishes in the current iteration
Snapshot == [seq |-> ticks, vision_data |-> vision_data]

\* while self.is_playing
GameLoopHead ==
    /\ coordPc = "loop_head"
    /\ ticks < MaxTicks
    /\ coordPc' = IF is_playing THEN "get_vision" ELSE "returned"
    /\ ticks' = IF is_playing THEN ticks + 1 ELSE ticks
    /\ UNCHANGED <<is_playing, vision_q, refbox_q, radio_q, vision_data,
                   refbox_data, gamestate_queue, commands_queue,
                   robot_commands, framesPut, eventsPut, pubLog, lastTake>>

\* Queue.get(): waits until the queue holds an item
get_updated_vision_data ==
    /\ coordPc = "get_vision"
    /\ vision_q # <<>>
    /\ vision_data' = Some(Head(vision_q))
    /\ vision_q' = Tail(vision_q)
    /\ coordPc' = "get_refbox"
    /\ UNCHANGED <<is_playing, ticks, refbox_q, radio_q, refbox_data,
                   gamestate_queue, commands_queue, robot_commands,
                   framesPut, eventsPut, pubLog, lastTake>>

get_updated_refbox_data ==
    /\ coordPc = "get_refbox"
    /\ refbox_q # <<>>
    /\ refbox_data' = Some(Head(refbox_q))
    /\ refbox_q' = Tail(refbox_q)
    /\ coordPc' = "publish_gamestate"
    /\ UNCHANGED <<is_playing, ticks, vision_q, radio_q, vision_data,
                   gamestate_queue, commands_queue, robot_commands,
                   framesPut, eventsPut, pubLog, lastTake>>

\* a full channel loses its oldest item to the one offered
OfferDropsOldest(q, snapshot) ==
    IF Len(q) >= QueueCap THEN Append(Tail(q), snapshot)
    ELSE Append(q, snapshot)

\* try: q.put_nowait(snapshot) / except: pass -- put_nowait raises
\* queue.Full on a full queue and appends otherwise
Offer(q, snapshot) ==
    IF Len(q) >= QueueCap THEN q ELSE Append(q, snapshot)

\* what became of the snapshot offered to q
OfferOutcome(q) == IF Len(q) >= QueueCap THEN "dropped" ELSE "placed"

\* publish_new_gamestate letting queue.Full escape: game_loop ends with it
publish_new_gamestate_raising ==
    /\ coordPc = "publish_gamestate"
    /\ IF \E t \in Teams : Len(gamestate_queue[t]) >= QueueCap
       THEN /\ coordPc' = "raised"
            /\ UNCHANGED <<gamestate_queue, pubLog, lastTake>>
       ELSE /\ coordPc' = "update_commands"
            /\ gamestate_queue' =
                   [t \in Teams |-> Append(gamestate_queue[t], Snapshot)]
            /\ pubLog' = [t \in Teams |-> Append(pubLog[t], "placed")]
    /\ UNCHANGED <<is_playing, ticks, vision_q, refbox_q, radio_q,
                   vision_data, refbox_data, commands_queue, robot_commands,
                   framesPut, eventsPut, lastTake>>

\* publish_new_gamestate with both puts under one try: queue.Full from the
\* blue put skips the yellow put
publish_new_gamestate_one_try ==
    /\ coordPc = "publish_gamestate"
    /\ gamestate_queue' =
           [t \in Teams |->
               IF Len(gamestate_queue["blue"]) >= QueueCap
               THEN gamestate_queue[t]
               ELSE Offer(gamestate_queue[t], Snapshot)]
    /\ pubLog' =
           [t \in Teams |->
               Append(pubLog[t],
                      IF Len(gamestate_queue["blue"]) >= QueueCap
                      THEN "dropped"
                      ELSE OfferOutcome(gamestate_queue[t]))]
    /\ coordPc' = "update_commands"
    /\ UNCHANGED <<is_playing, ticks, vision_q, refbox_q, radio_q,
                   vision_data, refbox_data, commands_queue, robot_commands,
                   framesPut, eventsPut, lastTake>>

publish_new_gamestate ==
    /\ coordPc = "publish_gamestate"
    /\ gamestate_queue' =
           [t \in Teams |-> Offer(gamestate_queue[t], Snapshot)]
    /\ pubLog' =
           [t \in Teams |-> Append(pubLog[t], OfferOutcome(gamestate_queue[t]))]
    /\ coordPc' = "update_commands"
    /\ UNCHANGED <<is_playing, ticks, vision_q, refbox_q, radio_q,
                   vision_data, refbox_data, commands_queue, robot_commands,
                   framesPut, eventsPut, lastTake>>

\* an empty channel resets the stored commands
TakeResetsOnEmpty(q, stored) ==
    IF q = <<>> THEN [queue |-> q, stored |-> None]
    ELSE [queue |-> Tail(q), stored |-> Some(Head(q))]

\* try: stored = q.get_nowait() / except: pass -- get_nowait raises
\* queue.Empty on an empty queue, before the assignment
Take(q, stored) ==
    IF q = <<>> THEN [queue |-> q, stored |-> stored]
    ELSE [queue |-> Tail(q), stored |-> Some(Head(q))]

update_robot_commands ==
    /\ coordPc = "update_commands"
    /\ commands_queue' =
           [t \in Teams |-> Take(commands_queue[t], robot_commands[t]).queue]
    /\ robot_commands' =
           [t \in Teams |-> Take(commands_queue[t], robot_commands[t]).stored]
    /\ lastTake' =
           [t \in Teams |-> IF commands_queue[t] = <<>> THEN "kept"
                            ELSE "taken"]
    /\ coordPc' = "publish_commands"
    /\ UNCHANGED <<is_playing, ticks, vision_q, refbox_q, radio_q,
                   vision_data, refbox_data, gamestate_queue, framesPut,
                   eventsPut, pubLog>>

\* Queue.put() on a queue built without maxsize
publish_robot_commands ==
    /\ coordPc = "publish_commands"
    /\ radio_q' = Append(radio_q, robot_commands)
    /\ coordPc' = "loop_head"
    /\ UNCHANGED <<is_playing, ticks, vision_q, refbox_q, vision_data,
                   refbox_data, gamestate_queue, commands_queue,
                   robot_commands, framesPut, eventsPut, pubLog, lastTake>>

\* one step of game_loop
CoordinatorStep ==
    \/ GameLoopHead
    \/ get_updated_vision_data
    \/ get_updated_refbox_data
    \/ publish_new_gamestate
    \/ update_robot_commands
    \/ publish_robot_commands

(***************************************************************************)
(* Coordinator.__init__ and start_game.  A Process object is the record of *)
(* its target and of whether start() has been called on it.  The attribute *)
(* start_game reads on line 62, radio_provider, is the yellow team's radio *)
(* provider of __init__.                                                   *)
(***************************************************************************)
\* the collaborators __init__ requires, and those that default to None
RequiredCollaborators == {"vision_provider", "yellow_strategy"}
OptionalCollaborators == {"blue_strategy", "blue_radio_provider",
                          "refbox_provider", "yellow_radio_provider"}

\* Coordinator(yellow_strategy, vision_provider, ...) with the optional
\* collaborators in some given
CoordinatorInit(some) ==
    /\ gamePc = "__init__"
    /\ given' = some
    /\ gamePc' = "line_54"
    /\ UNCHANGED processes

\* Process(target=collaborator.run): built, start() not called
NewProcess(collaborator) == [target |-> collaborator, started |-> FALSE]

\* one statement of start_game: an unconditional append
AppendProcess(line, collaborator, next) ==
    /\ gamePc = line
    /\ processes' = Append(processes, NewProcess(collaborator))
    /\ gamePc' = next
    /\ UNCHANGED given

\* one statement of start_game: if self.collaborator: append
AppendProcessIfGiven(line, collaborator, next) ==
    /\ gamePc = line
    /\ processes' = IF collaborator \in given
                    THEN Append(processes, NewProcess(collaborator))
                    ELSE processes
    /\ gamePc' = next
    /\ UNCHANGED given

start_game ==
    \/ AppendProcess("line_54", "vision_provider", "line_55")
    \/ AppendProcess("line_55", "yellow_strategy", "line_56")
    \/ AppendProcessIfGiven("line_56", "blue_strategy", "line_58")
    \/ AppendProcessIfGiven("line_58", "blue_radio_provider", "line_60")
    \/ AppendProcessIfGiven("line_60", "refbox_provider", "line_62")
    \/ AppendProcessIfGiven("line_62", "yellow_radio_provider", "returned")

GameNext ==
    \/ (\E some \in SUBSET OptionalCollaborators : CoordinatorInit(some))
           /\ UNCHANGED otherThanGame
    \/ start_game /\ UNCHANGED otherThanGame

SpecGame == Init /\ [][GameNext]_vars

(***************************************************************************)
(* The workers on the other end of the Coordinator's channels.             *)
(***************************************************************************)
\* the vision worker writes a frame to its commands_out_q
VisionPut ==
    /\ framesPut < MaxFrames
    /\ framesPut' = framesPut + 1
    /\ vision_q' = Append(vision_q, framesPut + 1)
    /\ UNCHANGED <<is_playing, coordPc, ticks, refbox_q, radio_q,
                   vision_data, refbox_data, gamestate_queue, commands_queue,
                   robot_commands, eventsPut, pubLog, lastTake>>

\* the referee worker writes an event to its commands_out_q
RefboxPut ==
    /\ eventsPut < MaxFrames
    /\ eventsPut' = eventsPut + 1
    /\ refbox_q' = Append(refbox_q, eventsPut + 1)
    /\ UNCHANGED <<is_playing, coordPc, ticks, vision_q, radio_q,
                   vision_data, refbox_data, gamestate_queue, commands_queue,
                   robot_commands, framesPut, pubLog, lastTake>>

\* a team's strategy worker takes the next snapshot and pushes the commands
\* it computed from it
run_strategy(team) ==
    /\ gamestate_queue[team] # <<>>
    /\ Len(commands_queue[team]) < QueueCap
    /\ gamestate_queue' = [gamestate_queue EXCEPT ![team] = Tail(@)]
    /\ commands_queue' =
           [commands_queue EXCEPT
               ![team] = Append(@, [team |-> team,
                                    seq |-> Head(gamestate_queue[team]).seq])]
    /\ UNCHANGED <<is_playing, coordPc, ticks, vision_q, refbox_q, radio_q,
                   vision_data, refbox_data, robot_commands, framesPut,
                   eventsPut, pubLog, lastTake>>

\* the radio worker takes the commands sent to it
RadioGet ==
    /\ radio_q # <<>>
    /\ radio_q' = Tail(radio_q)
    /\ UNCHANGED <<is_playing, coordPc, ticks, vision_q, refbox_q,
                   vision_data, refbox_data, gamestate_queue, commands_queue,
                   robot_commands, framesPut, eventsPut, pubLog, lastTake>>

CoordNext ==
    \/ CoordinatorStep /\ UNCHANGED otherThanCoord
    \/ VisionPut /\ UNCHANGED otherThanCoord
    \/ RefboxPut /\ UNCHANGED otherThanCoord
    \/ (\E team \in Teams : run_strategy(team)) /\ UNCHANGED otherThanCoord
    \/ RadioGet /\ UNCHANGED otherThanCoord

SpecCoord == Init /\ [][CoordNext]_vars

(***************************************************************************)
(* Strategy: the control loop of one team.  The store of gamestate.py      *)
(* keeps one team's robots, keyed by robot id, so the team argument of     *)
(* is_robot_lost and get_robot_position selects nothing.                   *)
(***************************************************************************)
Sign(n) == IF n > 0 THEN 1 ELSE IF n < 0 THEN -1 ELSE 0

\* robot_commands.set_speeds(x, y, w)
set_speeds(commands, x, y, w) == [commands EXCEPT !.speeds = <<x, y, w>>]

\* robot_commands.derive_speeds(pos): the speeds that take the robot from
\* pos towards its first waypoint, none when no waypoint is queued
derive_speeds(commands, pos) ==
    IF commands.waypoints = <<>>
    THEN [commands EXCEPT !.speeds = <<0, 0, 0>>]
    ELSE LET goal == Head(commands.waypoints)
         IN  [commands EXCEPT
                 !.speeds = <<Sign(goal[1] - pos[1]), Sign(goal[2] - pos[2]),
                              Sign(goal[3] - pos[3])>>]

\* the list cut down to its first item
ItemListFirstOnly(S) ==
    IF S = {} THEN <<>>
    ELSE <<CHOOSE y \in S : \A z \in S : y <= z>>

\* the items of get_team_commands(team), as the list the loop walks
RECURSIVE ItemList(_)
ItemList(S) ==
    IF S = {} THEN <<>>
    ELSE LET x == CHOOSE y \in S : \A z \in S : y <= z
         IN  <<x>> \o ItemList(S \ {x})

\* start_controlling(mode, loop_sleep); the Process it builds runs
\* control_loop
start_controlling(mode) ==
    /\ ctrlPc = "not_started"
    /\ _mode' = Some(mode)
    /\ _is_controlling' = TRUE
    /\ ctrlPc' = "wait_until_game_begins"
    /\ video_phase' = IF mode = "entry_video" THEN Some(1) ELSE video_phase
    /\ UNCHANGED <<ctrlTicks, game_begun, team_commands, todo, ctrlRaised,
                   lostAtVisit, tickLog, videoTick, stopVars>>

\* stop_controlling: with the flag set it clears the flag the loop polls
\* and calls self._control_thread.join(), which on None raises
\* AttributeError before line 98; with the flag clear it does nothing.
\* join() returns once control_loop has returned.
stop_controlling ==
    /\ IF _is_controlling
       THEN /\ _is_controlling' = FALSE
            /\ IF _control_thread = None
               THEN /\ stopCall' = "AttributeError"
                    /\ UNCHANGED _control_thread
               ELSE /\ ctrlPc = "returned"
                    /\ stopCall' = "returned"
                    /\ _control_thread' = None
       ELSE /\ stopCall' = "returned"
            /\ UNCHANGED <<_is_controlling, _control_thread>>
    /\ UNCHANGED <<_mode, ctrlPc, ctrlTicks, game_begun, team_commands, todo,
                   ctrlRaised, lostAtVisit, tickLog, videoVars>>

\* the game begins
GameBegins ==
    /\ ~game_begun
    /\ game_begun' = TRUE
    /\ UNCHANGED <<_is_controlling, _mode, ctrlPc, ctrlTicks, team_commands,
                   todo, ctrlRaised, lostAtVisit, tickLog, videoVars,
                   stopVars>>

\* control_loop entering its while loop without the wait
EnterLoopWithoutWaiting ==
    /\ ctrlPc = "wait_until_game_begins"
    /\ ctrlPc' = "loop_head"
    /\ UNCHANGED <<_is_controlling, _mode, ctrlTicks, game_begun,
                   team_commands, todo, ctrlRaised, lostAtVisit, tickLog,
                   videoVars, stopVars>>

\* self._gs.wait_until_game_begins() returns
WaitUntilGameBegins ==
    /\ ctrlPc = "wait_until_game_begins"
    /\ game_begun
    /\ ctrlPc' = "loop_head"
    /\ UNCHANGED <<_is_controlling, _mode, ctrlTicks, game_begun,
                   team_commands, todo, ctrlRaised, lostAtVisit, tickLog,
                   videoVars, stopVars>>

\* while self._is_controlling, for a bounded number of iterations
ControlLoopHeadUpTo(bound) ==
    /\ ctrlPc = "loop_head"
    /\ ctrlTicks < bound
    /\ IF _is_controlling
       THEN /\ ctrlPc' = "dispatch"
            /\ ctrlTicks' = ctrlTicks + 1
            /\ lostAtVisit' = [r \in RobotIds |-> "unvisited"]
            /\ tickLog' = <<>>
       ELSE /\ ctrlPc' = "returned"
            /\ UNCHANGED <<ctrlTicks, lostAtVisit, tickLog>>
    /\ UNCHANGED <<_is_controlling, _mode, game_begun, team_commands, todo,
                   ctrlRaised, videoVars, stopVars>>

ControlLoopHead == ControlLoopHeadUpTo(MaxCtrlTicks)

\* the waypoint lists a behaviour function may leave for a robot: none, or
\* one goal position
WaypointLists == {<<>>, << <<100, 0, 0>> >>}

\* the if/elif chain with full_game as the last branch
BehaviourDefaultingToFullGame(mode) ==
    IF mode \in RecognisedModes THEN mode ELSE "full_game"

\* the if/elif chain on self._mode: the behaviour function it calls, none
\* for an unrecognised mode
BehaviourFor(mode) ==
    IF mode \in RecognisedModes THEN mode ELSE "none"

\* the mode's behaviour function returns, having written the waypoints of
\* at most one robot of the team; an unrecognised mode only prints
DispatchReturns ==
    /\ ctrlPc = "dispatch"
    /\ IF BehaviourFor(Val(_mode)) # "none"
       THEN \/ UNCHANGED team_commands
            \/ \E r \in RobotIds, w \in WaypointLists :
                   team_commands' =
                       [team_commands EXCEPT ![r].waypoints = w]
       ELSE UNCHANGED team_commands
    /\ todo' = ItemList(DOMAIN team_commands)
    /\ tickLog' = <<[ev |-> "dispatch", robot_id |-> -1, lost |-> FALSE,
                     pos |-> None, called |-> BehaviourFor(Val(_mode)),
                     waypoints |-> [r \in DOMAIN team_commands |->
                                       team_commands'[r].waypoints]]>>
    /\ ctrlPc' = "reconcile"
    /\ UNCHANGED <<_is_controlling, _mode, ctrlTicks, game_begun, ctrlRaised,
                   lostAtVisit, videoVars, stopVars>>

\* the mode's behaviour function raises (get_ball_position()[0] on None in
\* entry_video, get_robot_position(...)[0:2] on None in defender, ...): the
\* except clause around the while loop logs it and control_loop returns
DispatchRaises ==
    /\ ctrlPc = "dispatch"
    /\ BehaviourFor(Val(_mode)) # "none"
    /\ ctrlRaised' = TRUE
    /\ ctrlPc' = "returned"
    /\ UNCHANGED <<_is_controlling, _mode, ctrlTicks, game_begun,
                   team_commands, todo, lostAtVisit, tickLog, videoVars,
                   stopVars>>

\* whether the robot was never updated or not within ROBOT_LOST_TIME
StaleOrUnseen(r) ==
    robotLog[r] = <<>>
    \/ now - robotLog[r][Len(robotLog[r])][1] > ROBOT_LOST_TIME

\* the commands of a robot after its visit with the lost branch left out
CommandsAfterVisitNoOverride(robot_id) ==
    IF is_robot_lost(robot_id)
    THEN team_commands[robot_id]
    ELSE derive_speeds(team_commands[robot_id],
                       Val(get_robot_position(robot_id)))

\* the body of the for loop: the commands of a robot after its visit
CommandsAfterVisit(robot_id) ==
    IF is_robot_lost(robot_id)
    THEN set_speeds(team_commands[robot_id], 0, 0, 0)
    ELSE derive_speeds(team_commands[robot_id],
                       Val(get_robot_position(robot_id)))

\* one iteration of the for loop over team_commands; after the last one the
\* while loop tests its condition again
ReconcileRobot ==
    /\ ctrlPc = "reconcile"
    /\ todo # <<>>
    /\ LET robot_id == Head(todo)
       IN  /\ team_commands' =
                  [team_commands EXCEPT
                      ![robot_id] = CommandsAfterVisit(robot_id)]
           /\ lostAtVisit' =
                  [lostAtVisit EXCEPT
                      ![robot_id] = IF StaleOrUnseen(robot_id) THEN "lost"
                                    ELSE "tracked"]
           /\ tickLog' =
                  Append(tickLog,
                         [ev |-> "visit", robot_id |-> robot_id,
                          called |-> "none",
                          lost |-> StaleOrUnseen(robot_id),
                          pos |-> IF robotLog[robot_id] = <<>> THEN None
                                  ELSE Some(robotLog[robot_id]
                                               [Len(robotLog[robot_id])][2]),
                          waypoints |->
                              [r \in DOMAIN team_commands |->
                                  team_commands[r].waypoints]])
    /\ todo' = Tail(todo)
    /\ ctrlPc' = IF Tail(todo) = <<>> THEN "loop_head" ELSE "reconcile"
    /\ UNCHANGED <<_is_controlling, _mode, ctrlTicks, game_begun, ctrlRaised,
                   videoVars, stopVars>>

ControlNext ==
    \/ (\E mode \in Modes : start_controlling(mode))
           /\ UNCHANGED otherThanCtrl
    \/ stop_controlling /\ UNCHANGED otherThanCtrl
    \/ GameBegins /\ UNCHANGED otherThanCtrl
    \/ WaitUntilGameBegins /\ UNCHANGED otherThanCtrl
    \/ ControlLoopHead /\ UNCHANGED otherThanCtrl
    \/ DispatchReturns /\ UNCHANGED otherThanCtrl
    \/ DispatchRaises /\ UNCHANGED otherThanCtrl
    \/ ReconcileRobot /\ UNCHANGED otherThanCtrl
    \/ Tick /\ UNCHANGED otherThanStore
    \/ (\E r \in RobotIds, pos \in RobotPositions :
           update_robot_position(r, pos, MaxCtrlUpdates))
           /\ UNCHANGED otherThanStore

SpecControl == Init /\ [][ControlNext]_vars

(***************************************************************************)
(* Strategy.entry_video: the phases of the registration video.  Its        *)
(* helpers (robot_face_ball, goalie, get_ball, path_find, prepare_and_kick,*)
(* set_dribbler, kick_ball, get_attack_goal) are not part of the model:    *)
(* what get_ball and prepare_and_kick return, and whether a helper raises, *)
(* are inputs of the call.                                                 *)
(***************************************************************************)
\* the ball positions vision reports during the video: short of and past
\* the x = 3000 line
VideoBallPositions == {<<0, 0>>, <<3200, 0>>}

\* self._gs.get_ball_position()[0] > 3000
BallPastThreshold == Val(get_ball_position)[1] > 3000

\* the if/elif chain with every phase below 10 advancing unconditionally
NextPhaseIgnoringConditions(phase, got_ball, kicked, ball_past) ==
    IF phase \in 1..9 THEN phase + 1
    ELSE IF phase = 10 THEN (IF ball_past THEN 7 ELSE phase)
    ELSE phase

\* the if/elif chain with phase 10 looping back to phase 1
NextPhaseRestarting(phase, got_ball, kicked, ball_past) ==
    IF phase \in {1, 3} THEN (IF got_ball THEN phase + 1 ELSE phase)
    ELSE IF phase \in {2, 4, 8} THEN (IF kicked THEN phase + 1 ELSE phase)
    ELSE IF phase \in {5, 6, 9} THEN phase + 1
    ELSE IF phase = 7
    THEN (IF ball_past THEN phase
          ELSE IF got_ball THEN phase + 1 ELSE phase)
    ELSE IF phase = 10 THEN (IF ball_past THEN 1 ELSE phase)
    ELSE phase

\* the if/elif chain of entry_video (lines 229-295): the phase it leaves
NextPhase(phase, got_ball, kicked, ball_past) ==
    IF phase \in {1, 3} THEN (IF got_ball THEN phase + 1 ELSE phase)
    ELSE IF phase \in {2, 4, 8} THEN (IF kicked THEN phase + 1 ELSE phase)
    ELSE IF phase \in {5, 6, 9} THEN phase + 1
    ELSE IF phase = 7
    THEN (IF ball_past THEN phase
          ELSE IF got_ball THEN phase + 1 ELSE phase)
    ELSE IF phase = 10 THEN (IF ball_past THEN 7 ELSE phase)
    ELSE phase

\* one entry_video call: what it found, and whether it returned or raised.
\* Every helper call of a branch stands before the branch's assignment to
\* video_phase, so a call that raises leaves the phase as it was; phases 7
\* and 10 subscript get_ball_position(), which raises TypeError on None.
EntryVideoCall(phase, got_ball, kicked, helper_raises) ==
    LET no_ball == get_ball_position = None
        ball_past == IF no_ball THEN FALSE ELSE BallPastThreshold
        raises == helper_raises \/ (phase \in {7, 10} /\ no_ball)
        asked_ball == phase \in {1, 3} \/ (phase = 7 /\ ~ball_past)
        asked_kick == phase \in {2, 4, 8}
    IN  [before |-> phase,
         got_ball |-> ~raises /\ asked_ball /\ got_ball,
         kicked |-> ~raises /\ asked_kick /\ kicked,
         ball_past |-> ball_past,
         outcome |-> IF raises THEN "raised" ELSE "returned",
         phase |-> IF raises THEN phase
                   ELSE NextPhase(phase, got_ball, kicked, ball_past)]

\* the dispatch of an iteration in mode entry_video: the call returns,
\* its helpers having written the waypoints of at most one robot, or
\* raises, and then the except clause around the while loop logs it and
\* control_loop returns
entry_video(got_ball, kicked, helper_raises) ==
    /\ ctrlPc = "dispatch"
    /\ Val(_mode) = "entry_video"
    /\ LET call == EntryVideoCall(Val(video_phase), got_ball, kicked,
                                  helper_raises)
       IN  /\ video_phase' = Some(call.phase)
           /\ videoTick' = [before |-> call.before,
                            got_ball |-> call.got_ball,
                            kicked |-> call.kicked,
                            ball_past |-> call.ball_past,
                            outcome |-> call.outcome]
           /\ IF call.outcome = "raised"
              THEN /\ ctrlRaised' = TRUE
                   /\ ctrlPc' = "returned"
                   /\ UNCHANGED <<team_commands, todo, tickLog>>
              ELSE /\ \/ UNCHANGED team_commands
                      \/ \E r \in RobotIds, w \in WaypointLists :
                             team_commands' =
                                 [team_commands EXCEPT ![r].waypoints = w]
                   /\ todo' = ItemList(DOMAIN team_commands)
                   /\ tickLog' =
                          <<[ev |-> "dispatch", robot_id |-> -1,
                             lost |-> FALSE, pos |-> None,
                             called |-> "entry_video",
                             waypoints |->
                                 [r \in DOMAIN team_commands |->
                                     team_commands'[r].waypoints]]>>
                   /\ ctrlPc' = "reconcile"
                   /\ UNCHANGED ctrlRaised
    /\ UNCHANGED <<_is_controlling, _mode, ctrlTicks, game_begun,
                   lostAtVisit, stopVars>>

VideoNext ==
    \/ start_controlling("entry_video") /\ UNCHANGED otherThanCtrl
    \/ GameBegins /\ UNCHANGED otherThanCtrl
    \/ WaitUntilGameBegins /\ UNCHANGED otherThanCtrl
    \/ ControlLoopHeadUpTo(MaxVideoTicks) /\ UNCHANGED otherThanCtrl
    \/ (\E got_ball \in BOOLEAN, kicked \in BOOLEAN,
           helper_raises \in BOOLEAN :
           entry_video(got_ball, kicked, helper_raises))
           /\ UNCHANGED otherThanCtrl
    \/ ReconcileRobot /\ UNCHANGED otherThanCtrl
    \/ (\E pos \in VideoBallPositions :
           update_ball_position(pos, MaxVideoBallUpdates))
           /\ UNCHANGED otherThanStore

SpecVideo == Init /\ [][VideoNext]_vars

(***************************************************************************)
(* JohnRobot: the radio link of one robot (src/move/comms/johnrobot.py).   *)
(* A command string "a,b,c" is the tuple <<a, b, c>> of its fields.        *)
(***************************************************************************)
\* the (forward, lateral, w) move is given: each speed is seen below,
\* within, above and on the bounds of the range
MoveInputs == {<<30, -300, 256>>, <<-300, 256, 30>>, <<256, 30, -300>>,
               <<255, -255, -256>>}
\* the ttl values move is given: 0.5 s (the default) and 1.0 s
TtlValues == {10, 20}
\* the powers dribble is given
PowerValues == {0, 255}

\* numpy.clip with the lower bound left out
ClipAbove(x, lo, hi) == IF x > hi THEN hi ELSE x

\* numpy.clip on an integer: minimum(maximum(x, lo), hi)
Clip(x, lo, hi) ==
    LET m == IF x < lo THEN lo ELSE x
    IN  IF m > hi THEN hi ELSE m

\* the throttle test with >= for >
DelayReached == now - last_command_time >= last_command_delay

\* time.time() - self.last_command_time > self.last_command_delay
DelayElapsed == now - last_command_time > last_command_delay

\* the command string of move; ttl, counted in units of 0.05 s, is 50 ms
\* per unit
MoveRecord(forward, lateral, w, ttl) ==
    LET robot_id == -1
        f == Clip(forward, -255, 255)
        l == Clip(lateral, -255, 255)
        w2 == Clip(w, -255, 255)
        time_ms == ttl * 50
    IN  <<robot_id, CMD_MOVE, l, f, w2, time_ms>>

\* the command string of dribble
DribbleRecord(power) == <<-1, CMD_DRIBBLE, power>>

\* the command string kill builds
KillRecord == <<-1, CMD_KILL>>

\* the body shared by move and dribble: the command is sent when the delay
\* has elapsed and is dropped otherwise
SendThrottled(op, args, cmd) ==
    /\ radioCalls < MaxRadioCalls
    /\ radioCalls' = radioCalls + 1
    /\ IF DelayElapsed
       THEN /\ last_command_time' = now
            /\ sent' = Append(sent, [t |-> now, cmd |-> cmd,
                                     op |-> op, args |-> args])
            /\ radioOp' = [op |-> op, at |-> now, sent |-> TRUE]
       ELSE /\ radioOp' = [op |-> op, at |-> now, sent |-> FALSE]
            /\ UNCHANGED <<last_command_time, sent>>

move(forward, lateral, w, ttl) ==
    SendThrottled("move", <<forward, lateral, w, ttl>>,
                  MoveRecord(forward, lateral, w, ttl))

dribble(power) ==
    SendThrottled("dribble", <<power>>, DribbleRecord(power))

\* kill builds its command string and returns: it makes no comms.send call
kill ==
    LET cmd == KillRecord
    IN  /\ radioCalls < MaxRadioCalls
        /\ radioCalls' = radioCalls + 1
        /\ radioOp' = [op |-> "kill", at |-> now, sent |-> FALSE]
        /\ UNCHANGED <<last_command_time, sent>>

RadioNext ==
    \/ TickUpTo(MaxRadioTime) /\ UNCHANGED otherThanStore
    \/ (\E speeds \in MoveInputs, ttl \in TtlValues :
           move(speeds[1], speeds[2], speeds[3], ttl))
           /\ UNCHANGED otherThanRadio
    \/ (\E power \in PowerValues : dribble(power))
           /\ UNCHANGED otherThanRadio
    \/ kill /\ UNCHANGED otherThanRadio

SpecRadio == Init /\ [][RadioNext]_vars

(***************************************************************************)
(* Control loop claims.                                                    *)
(***************************************************************************)
\* C1: in every iteration of control_loop, a robot that reconciliation
\* found lost holds the speeds (0, 0, 0) from its visit to the end of the
\* iteration, whatever waypoints are queued for it.
C1_LostRobotsCommandedZero ==
    \A r \in RobotIds :
        lostAtVisit[r] = "lost" => team_commands[r].speeds = <<0, 0, 0>>

\* the second iteration has ended: a robot that vision has seen, with a
\* waypoint away from its last seen position, was found lost and is stopped
C1_Witness ==
    /\ ctrlPc = "loop_head"
    /\ ctrlTicks = 2
    /\ \E r \in RobotIds :
           /\ lostAtVisit[r] = "lost"
           /\ robotLog[r] # <<>>
           /\ team_commands[r].waypoints # <<>>
           /\ Head(team_commands[r].waypoints) # Val(get_robot_position(r))
           /\ team_commands[r].speeds = <<0, 0, 0>>

\* C2: an exception raised in an iteration while the controlling flag is
\* set does not end the loop: control_loop has not returned while the flag
\* is set.
C2_LoopSurvivesException ==
    (ctrlRaised /\ _is_controlling) => ctrlPc # "returned"

(***************************************************************************)
(* Coordinator channels.                                                   *)
(***************************************************************************)
Range(q) == {q[i] : i \in DOMAIN q}

InTick == {"get_vision", "get_refbox", "publish_gamestate",
           "update_commands", "publish_commands"}

\* C3: an iteration of game_loop never waits on a worker: whatever the
\* workers have put on their channels, the iteration started can take its
\* next step.
C3_TickNeverWaitsOnWorker ==
    coordPc \in InTick => ENABLED CoordinatorStep

\* the step of game_loop that runs publish_new_gamestate
PublishStep == coordPc = "publish_gamestate" /\ coordPc' # "publish_gamestate"

UpdateCommandsStep ==
    coordPc = "update_commands" /\ coordPc' # "update_commands"

\* C6: update_robot_commands can always run (it does not block) and returns
\* normally; a team whose command channel is empty keeps its stored
\* commands, a team whose channel is not empty gets the item at its head.
C6_EmptyChannelKeepsCommands ==
    /\ [](coordPc = "update_commands" => ENABLED update_robot_commands)
    /\ [][UpdateCommandsStep =>
            /\ coordPc' = "publish_commands"
            /\ \A t \in Teams :
                  IF commands_queue[t] = <<>>
                  THEN /\ robot_commands'[t] = robot_commands[t]
                       /\ commands_queue'[t] = <<>>
                  ELSE /\ robot_commands'[t] = Some(Head(commands_queue[t]))
                       /\ commands_queue'[t] = Tail(commands_queue[t])
         ]_vars

\* update_robot_commands has just returned: one team's channel was empty and
\* it still holds the commands of an earlier iteration, the other team's
\* commands were taken from its channel
C6_Witness ==
    /\ coordPc = "publish_commands"
    /\ \E t, u \in Teams :
           /\ lastTake[t] = "kept"
           /\ robot_commands[t] # None
           /\ lastTake[u] = "taken"
           /\ robot_commands[u] # None

(***************************************************************************)
(* Staleness.                                                              *)
(***************************************************************************)
\* the time of the last update_robot_position call for a robot id
RobotLastT(r) == robotLog[r][Len(robotLog[r])][1]

\* C7: at every time, is_ball_lost (threshold 0.1 s) and is_robot_lost
\* (threshold 0.2 s) are true exactly when the entity was never updated or
\* the time since its last update is strictly greater than the threshold;
\* true after construction, false right after an update of the entity.
C7_LostIffNeverSeenOrStale ==
    /\ is_ball_lost <=> (ballUpdates = 0 \/ now - ballLastT > BALL_LOST_TIME)
    /\ \A r \in RobotIds :
           is_robot_lost(r) <=>
               (robotLog[r] = <<>> \/ now - RobotLastT(r) > ROBOT_LOST_TIME)
    /\ storeOp.op = "__init__" =>
           is_ball_lost /\ \A r \in RobotIds : is_robot_lost(r)
    /\ storeOp.op = "update_ball_position" => ~is_ball_lost
    /\ storeOp.op = "update_robot_position" =>
           \A r \in storeOp.robots : ~is_robot_lost(r)

\* the ball has just become lost, one robot is at the very threshold and so
\* not lost, the other robot was never seen
C7_Witness ==
    /\ ballUpdates > 0
    /\ now - ballLastT = BALL_LOST_TIME + 1
    /\ is_ball_lost
    /\ \E r \in RobotIds :
           /\ robotLog[r] # <<>>
           /\ now - RobotLastT(r) = ROBOT_LOST_TIME
           /\ ~is_robot_lost(r)
    /\ \E r \in RobotIds : robotLog[r] = <<>> /\ is_robot_lost(r)

(***************************************************************************)
(* Robot position history.                                                 *)
(***************************************************************************)
Min(a, b) == IF a < b THEN a ELSE b

\* the k most recent samples of a call log, newest first
MostRecent(log, k) == [i \in 1..k |-> log[Len(log) + 1 - i]]

\* C8: after the Nth update_robot_position call on a robot id,
\* get_robot_position returns the Nth position and the history holds the
\* min(N, 20) most recent samples, newest first (past 20 calls each
\* insertion has evicted the oldest sample and nothing else).
C8_HistoryIsLast20NewestFirst ==
    \A r \in RobotIds :
        LET N == Len(robotLog[r])
        IN  IF N = 0
            THEN get_robot_position(r) = None
            ELSE /\ get_robot_position(r) = Some(robotLog[r][N][2])
                 /\ _robot_positions[r] = MostRecent(robotLog[r], Min(N, 20))

\* 21 calls were made, and the sample evicted differs from the oldest kept
C8_Witness ==
    /\ Len(robotLog[0]) = 21
    /\ Len(_robot_positions[0]) = 20
    /\ robotLog[0][1][2] # robotLog[0][2][2]
    /\ robotLog[0][21][2] # robotLog[0][1][2]

(***************************************************************************)
(* Ball velocity.                                                          *)
(***************************************************************************)
\* the index the lookback selects: the first index, walking back from the
\* newest sample, whose age gap is at least 0.05 s, or the index of the
\* oldest sample when no sample reaches that gap
SelectedIndex(positions) ==
    LET reach == {i \in 1..Len(positions) :
                     positions[1][1] - positions[i][1] >= MIN_TIME_INTERVAL}
    IN  IF reach = {} THEN Len(positions)
        ELSE CHOOSE i \in reach : \A j \in reach : i <= j

\* v is the vector (dx / dt, dy / dt)
IsQuotient(v, dx, dy, dt) ==
    /\ dt # 0
    /\ v.dx * dt = dx * v.dt
    /\ v.dy * dt = dy * v.dt

\* C9: with at least two samples, the newest and the selected one having
\* the same timestamp, get_ball_velocity raises nothing, returns the
\* previously cached velocity and leaves the cache unchanged.
C9_DuplicateTimestampsReturnCached ==
    (/\ storeOp.op = "get_ball_velocity"
     /\ Len(_ball_position) >= 2
     /\ _ball_position[1][1] =
            _ball_position[SelectedIndex(_ball_position)][1])
    => /\ velCall.outcome = "returned"
       /\ velCall.value = velCall.prev
       /\ ball_velocity = velCall.prev

\* C10: get_ball_velocity returns the zero vector for fewer than 2 samples
\* and otherwise (pos[0] - pos[i]) / (t[0] - t[i]) for the selected index i.
C10_VelocityIsFiniteDifference ==
    storeOp.op = "get_ball_velocity" =>
        /\ velCall.outcome = "returned"
        /\ IF Len(_ball_position) < 2
           THEN velCall.value = ZeroVel
           ELSE LET i == SelectedIndex(_ball_position)
                    newest == _ball_position[1]
                    old == _ball_position[i]
                IN  IsQuotient(velCall.value,
                               newest[2][1] - old[2][1],
                               newest[2][2] - old[2][2],
                               newest[1] - old[1])

\* what holds of get_ball_velocity: the statement of C10 for every history
\* whose selected sample is older than the newest one, and an error for
\* every history where it is not
VelocityIsFiniteDifferenceUnlessRaised ==
    storeOp.op = "get_ball_velocity" =>
        LET i == SelectedIndex(_ball_position)
            newest == _ball_position[1]
            old == _ball_position[i]
        IN  IF Len(_ball_position) < 2
            THEN velCall.outcome = "returned" /\ velCall.value = ZeroVel
            ELSE IF newest[1] = old[1]
            THEN velCall.outcome = "ZeroDivisionError"
            ELSE /\ velCall.outcome = "returned"
                 /\ IsQuotient(velCall.value,
                               newest[2][1] - old[2][1],
                               newest[2][2] - old[2][2],
                               newest[1] - old[1])

(***************************************************************************)
(* The velocity estimate after the last update.                            *)
(***************************************************************************)
\* the history of the ball seen at (0, 0) at time 0 and at (50, 0) 0.05 s
\* later
TwoSampleHistory == << <<1, <<50, 0>> >>, <<0, <<0, 0>> >> >>

\* C11: with no update_ball_position call in between, every
\* get_ball_velocity call returns what the first call after the last update
\* returned, however late it is made and whether or not is_ball_lost() has
\* become true; after samples (0, 0) at t = 0 and (50, 0) at t = 0.05 s it
\* returns (1000, 0) per second.
C11_VelocityKeptAfterLastUpdate ==
    storeOp.op = "get_ball_velocity" =>
        /\ firstVel.call.outcome = "returned" =>
               /\ velCall.outcome = "returned"
               /\ velCall.value = firstVel.call.value
        /\ _ball_position = TwoSampleHistory =>
               /\ velCall.outcome = "returned"
               /\ velCall.value = Vel(1000, 0, 20)

\* the two samples, a first call right after the second one, and a call
\* 0.2 s later, when the ball is lost, that still returns (1000, 0)
C11_Witness ==
    /\ storeOp.op = "get_ball_velocity"
    /\ _ball_position = TwoSampleHistory
    /\ firstVel.at = 1
    /\ firstVel.call.value = Vel(1000, 0, 20)
    /\ now = 5
    /\ is_ball_lost
    /\ velCall.value = Vel(1000, 0, 20)
    /\ velCall.value # ZeroVel

(***************************************************************************)
(* JohnRobot: throttle and wire format.                                    *)
(***************************************************************************)
\* the clock values at which the commands sent so far were sent
SentTimes == [i \in DOMAIN sent |-> sent[i].t]

\* C12: a move or dribble call made no more than command_delay (0.15 s)
\* after the last command that was sent is dropped: nothing is sent, then
\* or later, and the last-command time is unchanged; a call made more than
\* command_delay after it is sent and becomes the new last command; any two
\* sent commands are more than command_delay apart.
C12_ThrottleDropsOrSends ==
    /\ [](\A i, j \in DOMAIN sent :
             i < j => SentTimes[j] - SentTimes[i] > last_command_delay)
    /\ [][/\ radioCalls' = radioCalls => sent' = sent
          /\ (/\ radioCalls' # radioCalls
               /\ radioOp'.op \in {"move", "dribble"}
               /\ sent # <<>>) =>
                 IF now - SentTimes[Len(sent)] > last_command_delay
                 THEN /\ Len(sent') = Len(sent) + 1
                      /\ SubSeq(sent', 1, Len(sent)) = sent
                      /\ sent'[Len(sent')].t = now
                      /\ sent'[Len(sent')].op = radioOp'.op
                      /\ last_command_time' = now
                 ELSE /\ sent' = sent
                      /\ last_command_time' = last_command_time]_vars

\* two commands sent 0.2 s apart, and a call made 0.15 s after the second
\* one dropped
C12_Witness ==
    /\ Len(sent) = 2
    /\ SentTimes = <<4, 8>>
    /\ last_command_time = 8
    /\ radioOp = [op |-> "dribble", at |-> 11, sent |-> FALSE]

\* a speed field for a speed input: the input when it is in range and the
\* nearer bound otherwise
IsClamped(field, input) ==
    /\ field \in -255..255
    /\ input \in -255..255 => field = input
    /\ input > 255 => field = 255
    /\ input < -255 => field = -255

\* C13: every MOVE record sent by move(forward, lateral, w, ttl) with
\* integer inputs is robot id -1, the MOVE code, then the three speed
\* fields in the order lateral, forward, rotational, each an integer in
\* [-255, 255] equal to its input when that is in range and to the nearer
\* bound otherwise, then ttl * 1000 in milliseconds.
C13_MoveRecordClampedInOrder ==
    \A i \in DOMAIN sent :
        sent[i].op = "move" =>
            LET forward == sent[i].args[1]
                lateral == sent[i].args[2]
                w == sent[i].args[3]
                ttl == sent[i].args[4]
                cmd == sent[i].cmd
            IN  /\ Len(cmd) = 6
                /\ cmd[1] = -1
                /\ cmd[2] = 0
                /\ IsClamped(cmd[3], lateral)
                /\ IsClamped(cmd[4], forward)
                /\ IsClamped(cmd[5], w)
                /\ cmd[6] = ttl * 50

\* move(30, -300, 256) with the default ttl sent as -1,0,-255,30,255,500
C13_Witness ==
    \E i \in DOMAIN sent :
        /\ sent[i].op = "move"
        /\ sent[i].args = <<30, -300, 256, 10>>
        /\ sent[i].cmd = <<-1, 0, -255, 30, 255, 500>>

\* C14: a kill call emits one KILL record with robot id -1 on the link,
\* whatever the time since the last command.
C14_KillEmitsKillRecord ==
    radioOp.op = "kill" =>
        /\ sent # <<>>
        /\ sent[Len(sent)].t = radioOp.at
        /\ sent[Len(sent)].cmd = <<-1, 2>>

(***************************************************************************)
(* Robots of the two teams.                                                *)
(***************************************************************************)
\* C15: robot state is keyed by (team, id): for two robots of different
\* teams with the same numeric id, an update of one changes none of
\* get_robot_position, the last-update time and is_robot_lost of the other.
C15_OtherTeamUnaffected ==
    [][\A team \in Teams, r \in RobotIds :
          teamLog'[<<team, r>>] # teamLog[<<team, r>>] =>
              \A other \in Teams \ {team} :
                  /\ get_team_robot_position(other, r)' =
                         get_team_robot_position(other, r)
                  /\ get_team_robot_last_update_time(other, r)' =
                         get_team_robot_last_update_time(other, r)
                  /\ is_team_robot_lost(other, r)' =
                         is_team_robot_lost(other, r)]_vars

(***************************************************************************)
(* Command state of a robot.                                               *)
(***************************************************************************)
\* C16: every robot id that has a position history also has its full
\* default command state: an empty waypoint list, a dribbler entry, a
\* kicker-charging entry and a kick entry, all created by the first
\* update_robot_position for that id.
C16_HistoryImpliesCommandState ==
    \A r \in DOMAIN _robot_positions :
        /\ r \in DOMAIN robot_waypoints
        /\ r \in DOMAIN robot_dribblers
        /\ r \in DOMAIN robot_chargings
        /\ r \in DOMAIN robot_kicks
        /\ robot_waypoints[r] = <<>>

(***************************************************************************)
(* Concurrent use of the store.                                            *)
(***************************************************************************)
\* C17: under every interleaving of a reader with update_robot_position
\* calls on the same robot id, the first one included,
\* get_robot_position, get_robot_last_update_time and is_robot_lost return:
\* none of them fails.
C17_ReaderNeverFails ==
    readCall.outcome \in {"none", "returned"}

\* C18: concurrent update_robot_position calls on one robot id leave the
\* history they would leave if run one after the other: once the calls
\* have returned, the history of the id holds the sample of every one of
\* them, also when they are the first observations of the id.
C18_ConcurrentUpdatesBothKept ==
    (\A w \in Writers : threadPc[w] = "idle") =>
        \A r \in RobotIds :
            IF robotLog[r] = <<>>
            THEN r \notin DOMAIN _robot_positions
            ELSE /\ r \in DOMAIN _robot_positions
                 /\ Len(_robot_positions[r]) = Len(robotLog[r])
                 /\ Range(_robot_positions[r]) = Range(robotLog[r])

(***************************************************************************)
(* The control loop: the game-begin gate and the order within a tick.      *)
(***************************************************************************)
\* C19: control_loop runs no mode dispatch and no reconciliation before the
\* game-begin signal has been observed, and passes the gate once: after it
\* the iterations run without waiting for the signal again.
C19_NothingBeforeGameBegins ==
    /\ [](~game_begun =>
             /\ ctrlPc \in {"not_started", "wait_until_game_begins"}
             /\ ctrlTicks = 0
             /\ tickLog = <<>>
             /\ \A r \in RobotIds :
                    team_commands[r] =
                        [waypoints |-> <<>>, speeds |-> <<0, 0, 0>>])
    /\ [][ctrlPc \notin {"not_started", "wait_until_game_begins"} =>
              ctrlPc' # "wait_until_game_begins"]_vars

\* the second iteration under way: the first ran dispatch and
\* reconciliation after the gate and the loop went on to the next without
\* passing the gate again
C19_Witness ==
    /\ game_begun
    /\ ctrlTicks = 2
    /\ ctrlPc = "reconcile"
    /\ Len(tickLog) = 2

\* the speeds reconciliation computes for a robot from the waypoints wp,
\* the staleness and the position found at its visit
SpeedsFor(wp, lost, pos) ==
    IF lost THEN <<0, 0, 0>>
    ELSE derive_speeds([waypoints |-> wp, speeds |-> <<0, 0, 0>>],
                       Val(pos)).speeds

\* C20: within each iteration of control_loop the behaviour function has
\* returned before reconciliation starts, reconciliation visits every
\* robot id tracked for the team, and the speeds a robot holds at the end
\* of the iteration are the ones reconciliation computed from the
\* waypoints as that iteration's dispatch left them.
C20_DispatchThenReconcileAll ==
    /\ \A i \in DOMAIN tickLog :
           tickLog[i].ev = IF i = 1 THEN "dispatch" ELSE "visit"
    /\ (ctrlPc = "loop_head" /\ ctrlTicks > 0) =>
           /\ Len(tickLog) = 1 + Cardinality(DOMAIN team_commands)
           /\ {tickLog[i].robot_id : i \in 2..Len(tickLog)} =
                  DOMAIN team_commands
           /\ \A i \in 2..Len(tickLog) :
                  LET visit == tickLog[i]
                      wp == tickLog[1].waypoints[visit.robot_id]
                  IN  /\ visit.waypoints = tickLog[1].waypoints
                      /\ team_commands[visit.robot_id].waypoints = wp
                      /\ team_commands[visit.robot_id].speeds =
                             SpeedsFor(wp, visit.lost, visit.pos)

\* an iteration whose dispatch left a waypoint for robot 0, seen at the
\* origin, and none for robot 8, never seen: both were visited after the
\* dispatch, robot 0 heads for its waypoint and robot 8 stands still
C20_Witness ==
    /\ ctrlPc = "loop_head"
    /\ Len(tickLog) = 3
    /\ tickLog[1].ev = "dispatch"
    /\ tickLog[1].waypoints[0] = << <<100, 0, 0>> >>
    /\ tickLog[2].robot_id = 0
    /\ ~tickLog[2].lost
    /\ tickLog[2].pos = Some(<<0, 0, 0>>)
    /\ tickLog[3].robot_id = 8
    /\ tickLog[3].lost
    /\ team_commands[0].speeds = <<1, 0, 0>>
    /\ team_commands[8].speeds = <<0, 0, 0>>

(***************************************************************************)
(* entry_video: the phases.                                                *)
(***************************************************************************)
\* a step in which entry_video is called
VideoCallStep == ctrlPc = "dispatch" /\ ctrlPc' # "dispatch"

\* the exit condition of the phase a call found, among ball obtained, kick
\* executed and ball past the threshold; phases 5 and 9 call kick_ball
\* themselves, phase 6 has none of the three
ExitConditionHeld(call) ==
    /\ call.outcome = "returned"
    /\ IF call.before \in {1, 3, 7} THEN call.got_ball
       ELSE IF call.before \in {2, 4, 8} THEN call.kicked
       ELSE IF call.before \in {5, 9} THEN TRUE
       ELSE IF call.before = 10 THEN call.ball_past
       ELSE FALSE

\* C21 as stated: in entry_video mode the phase changes in a tick only if
\* the exit condition of the current phase (ball obtained, kick executed,
\* ball past the threshold) held in that tick; where it is false the phase
\* at the end of the tick is the phase at its start.
C21_PhaseChangesOnlyOnExitCondition ==
    [][(video_phase # None /\ video_phase' # video_phase) =>
          /\ VideoCallStep
          /\ videoTick'.before = Val(video_phase)
          /\ ExitConditionHeld(videoTick')]_vars

\* C21 amended: in phases 1, 2, 3, 4, 7, 8 and 10 the phase changes in a
\* tick only if the phase's exit condition held in that tick (ball
\* obtained in 1, 3, 7; kick executed in 2, 4, 8; ball past the threshold
\* in 10); phases 5, 6 and 9 have no exit condition and advance by one in
\* every tick whose entry_video call returns; a call that raises leaves
\* the phase unchanged.
C21_PhaseChangesOnExitConditionOrPassThrough ==
    [][video_phase # None =>
          /\ video_phase' # video_phase =>
                 /\ VideoCallStep
                 /\ videoTick'.before = Val(video_phase)
                 /\ videoTick'.outcome = "returned"
                 /\ \/ ExitConditionHeld(videoTick')
                    \/ videoTick'.before \in {5, 6, 9}
          /\ (/\ VideoCallStep
              /\ Val(_mode) = "entry_video"
              /\ Val(video_phase) \in {5, 6, 9}
              /\ videoTick'.outcome = "returned") =>
                 Val(video_phase') = Val(video_phase) + 1]_vars

\* the call that found phase 6 left phase 7 with no ball obtained, no kick
\* executed and the ball short of the threshold
C21_Witness ==
    /\ videoTick.before = 6
    /\ videoTick.outcome = "returned"
    /\ ~videoTick.got_ball
    /\ ~videoTick.kicked
    /\ ~videoTick.ball_past
    /\ video_phase = Some(7)

(***************************************************************************)
(* An unrecognised mode.                                                   *)
(***************************************************************************)
\* C22: when the configured mode is none of the recognised modes, every
\* tick of the control loop calls no behaviour function and writes no
\* waypoint, the loop is not ended by it (it returns only once the
\* controlling flag is clear), and the tick's reconciliation visits every
\* robot of the team.
C22_UnrecognisedModeDoesNothing ==
    (_mode # None /\ Val(_mode) \notin RecognisedModes) =>
        /\ ~ctrlRaised
        /\ ctrlPc = "returned" => ~_is_controlling
        /\ tickLog # <<>> => tickLog[1].called = "none"
        /\ \A r \in RobotIds : team_commands[r].waypoints = <<>>
        /\ video_phase = None
        /\ (ctrlPc = "loop_head" /\ ctrlTicks > 0) =>
               {tickLog[i].robot_id : i \in 2..Len(tickLog)} =
                   DOMAIN team_commands

\* the second tick in an unrecognised mode has dispatched nothing and has
\* visited both robots
C22_Witness ==
    /\ _mode = Some("no_such_mode")
    /\ _is_controlling
    /\ ctrlTicks = 2
    /\ ctrlPc = "loop_head"
    /\ Len(tickLog) = 3
    /\ tickLog[1].called = "none"
    /\ tickLog[2].ev = "visit"
    /\ tickLog[3].ev = "visit"

(***************************************************************************)
(* The workers of a game.                                                  *)
(***************************************************************************)
\* the Process objects held for a collaborator
ProcessesOf(collaborator) ==
    {i \in DOMAIN processes : processes[i].target = collaborator}

\* C23: after start_game, every configured collaborator (vision, yellow
\* strategy, and each of blue strategy, blue radio, referee and yellow
\* radio that was given) has exactly one worker, which is running the
\* collaborator's run loop, and a collaborator that was not configured has
\* none.
C23_OneRunningWorkerPerCollaborator ==
    gamePc = "returned" =>
        \A c \in RequiredCollaborators \cup OptionalCollaborators :
            IF c \in RequiredCollaborators \cup given
            THEN /\ Cardinality(ProcessesOf(c)) = 1
                 /\ \A i \in ProcessesOf(c) : processes[i].started
            ELSE ProcessesOf(c) = {}

(***************************************************************************)
(* Stopping the control loop.                                              *)
(***************************************************************************)
\* C24: after start_controlling, stop_controlling clears the controlling
\* flag, itself returns and leaves the strategy not controlling; and the
\* control loop, which reads the flag at the start of each iteration, once
\* at the start of an iteration with the flag cleared runs no further tick
\* and exits.
C24_StopControllingReturnsAndLoopExits ==
    /\ [](stopCall # "none" => stopCall = "returned")
    /\ [][stop_controlling => ~_is_controlling']_vars
    /\ [][ctrlPc = "loop_head" /\ ~_is_controlling
            => ctrlPc' \in {"loop_head", "returned"}]_vars

(***************************************************************************)
(* The range and the moves of the entry_video phase.                       *)
(***************************************************************************)
\* the phase as a number, once start_controlling has set it
PhaseNow == Val(video_phase)

\* C25: the entry_video phase is always one of 1..10; in one tick it stays,
\* goes up by one, or goes from 10 back to 7; and once it has reached 7 it
\* stays in 7..10.
C25_PhaseRangeAndMoves ==
    /\ [](video_phase # None => PhaseNow \in 1..10)
    /\ [][video_phase # None /\ video_phase' # video_phase
            => \/ Val(video_phase') = PhaseNow + 1
               \/ PhaseNow = 10 /\ Val(video_phase') = 7]_vars
    /\ [][video_phase # None /\ PhaseNow >= 7
            => Val(video_phase') \in 7..10]_vars

\* a tick in phase 10 with the ball past the threshold has taken the phase
\* back to 7
C25_Witness ==
    /\ videoTick.before = 10
    /\ videoTick.ball_past
    /\ videoTick.outcome = "returned"
    /\ video_phase = Some(7)

====
